---- MODULE Spec2Model ----
(***************************************************************************)
(* Capture-exclusion manager of InvisibleChat (src/src/utils.py).          *)
(*                                                                         *)
(* The host (which libraries load, which entry points they export, which   *)
(* windows exist and how they are nested) is fixed at start-up.  Each      *)
(* invocation of set_window_excluded_from_capture runs to completion on    *)
(* the UI thread; the answers of the platform calls (the HRESULT of        *)
(* DwmSetWindowAttribute, the BOOL of SetWindowDisplayAffinity) are chosen *)
(* by the platform at each call.                                           *)
(***************************************************************************)
EXTENDS Integers, Sequences, FiniteSets

\* ---- bounds of the model ----
MaxHandle == 3
MaxInvocations == 2
MaxRequests == 6
MaxPrompts == 2
MaxSends == 2
MaxFaults == 1

\* ---- program constants ----
GA_ROOT == 2
DWMWA_EXCLUDED_FROM_CAPTURE == 39
WDA_EXCLUDEFROMCAPTURE == 17
WDA_MONITOR == 1

NULL == 0
Handles == 0..MaxHandle

VARIABLES
    IS_WINDOWS,   \* module flag set at import time
    libs,         \* libraries ctypes.WinDLL can load on this host
    entries,      \* entry points those libraries export
    windows,      \* live windows: handle -> [parent, dwm, affinity]
    hwnd,         \* argument of the latest invocation
    ret,          \* value returned by the latest invocation
    exc,          \* exception that escaped the latest invocation ("" if none)
    level,        \* threshold of the log sink, set once at import time
    log,          \* entries the logger recorded during the latest invocation
    emitted,      \* entries the latest invocation handed to the logger, before the threshold
    calls,        \* platform interactions of the latest invocation, in order
    prev,         \* the invocation before the latest one
    inv           \* number of invocations so far

exclVars == <<IS_WINDOWS, libs, entries, windows, level, hwnd, ret, exc, log, emitted, calls, prev, inv>>

\* GrokAPIClient.send_query (src/src/api_client.py)
VARIABLES
    query,        \* argument of send_query, a sequence of characters
    sqPc,         \* where send_query is: "start", "request", "sleep", "done"
    attempt,      \* loop variable of "for attempt in range(4)"
    requests,     \* HTTP requests issued so far
    delay,        \* the delay computed for the pending asyncio.sleep
    sleeps,       \* the bases of the backoff sleeps taken so far
    received,     \* what the requests met with, in order
    outcome       \* how send_query ended: a returned text or a raised error

queryVars == <<query, sqPc, attempt, requests, delay, sleeps, received, outcome>>

\* ChatGUI and AsyncioRunner (src/src/gui.py), the keyring (src/src/utils.py)
VARIABLES
    gPc,          \* "new", "prompt", "running", "closed", "exited", "crashed"
    keyringReads, \* host fact: "ok" or "raises" for keyring.get_password
    store,        \* the secret kept by the keyring
    got,          \* what get_api_key gave the constructor
    apiKey,       \* self.client.api_key
    trail,        \* one record per pass of the loop of _prompt_api_key
    timerPending, \* root.after(600, self._finish_init) has not fired yet
    exclFrom,     \* one record per invocation of set_window_excluded_from_capture
    _hidden,      \* self._hidden
    withdrawn,    \* whether the toplevel is withdrawn
    toggled,      \* the latest toggle: the flag before it and the window call that raised
    faults,       \* toggles in which a window call raised
    status_var,   \* self.status_var
    chat,         \* lines of self.chat_display
    input_var,    \* self.input_var, the text of the entry
    typed,        \* the texts the entry held at each send event
    sent,         \* send events so far
    inflight,     \* the queries whose coroutine runs on the runner's loop
    callbacks,    \* per accepted query, the callbacks done(f) has invoked for it
    replies,      \* per accepted query, the reply lines appended for it
    uiQueue,      \* callbacks registered with root.after(0, ...) and not yet run
    ops           \* operations performed, each with the thread it ran on

guiVars == <<gPc, keyringReads, store, got, apiKey, trail, timerPending, exclFrom,
             _hidden, withdrawn, toggled, faults, status_var, chat, input_var, typed, sent, inflight,
             callbacks, replies, uiQueue, ops>>

vars == <<exclVars, queryVars, guiVars>>

\* ---- Python values ----
PyStr(s) == [type |-> "str", value |-> s]
PyTrue == [type |-> "bool", value |-> "True"]
PyNone == [type |-> "NoneType", value |-> "None"]

\* ---- log records and platform interaction records ----
LogRec(lvl, msg, e, code) == [level |-> lvl, msg |-> msg, exc |-> e, code |-> code]

\* logging.DEBUG .. logging.CRITICAL, the thresholds INVISIBLECHAT_LOG can select
LogLevels == {10, 20, 30, 40, 50}

Severity(name) ==
    IF name = "INFO" THEN 20 ELSE IF name = "WARNING" THEN 30 ELSE 40

\* the entries of lg that pass the threshold of the sink
RECURSIVE Recorded(_, _)
Recorded(lg, threshold) ==
    IF lg = <<>> THEN <<>>
    ELSE IF Severity(Head(lg).level) >= threshold
    THEN <<Head(lg)>> \o Recorded(Tail(lg), threshold)
    ELSE Recorded(Tail(lg), threshold)

CallRec(fn, api, name, h, arg, result, e) ==
    [fn |-> fn, api |-> api, name |-> name, hwnd |-> h, arg |-> arg,
     result |-> result, exc |-> e]

\* ---- the platform ----
AllLibs == {"dwmapi", "user32"}
AllEntries == {"DwmSetWindowAttribute", "GetAncestor", "SetWindowDisplayAffinity"}
LibOf(sym) == IF sym = "DwmSetWindowAttribute" THEN "dwmapi" ELSE "user32"

\* window forests: a child is created after its parent, so its handle is larger
Forests ==
    UNION { { f \in [1..k -> 0..MaxHandle] : \A h \in 1..k : f[h] < h } : k \in 0..MaxHandle }

RECURSIVE RootOf(_, _)
RootOf(w, h) == IF w[h].parent = NULL THEN h ELSE RootOf(w, w[h].parent)

\* user32!GetAncestor: NULL for a handle that is no window
GetAncestor(w, h, gaFlags) ==
    IF h \notin DOMAIN w THEN NULL
    ELSE IF gaFlags = GA_ROOT THEN RootOf(w, h)
    ELSE w[h].parent

\* dwmapi!DwmSetWindowAttribute: the possible (HRESULT, windows) answers
DwmSetWindowAttribute(w, h, attr, val) ==
    IF h \in DOMAIN w
    THEN {[hr |-> 0, win |-> IF attr = DWMWA_EXCLUDED_FROM_CAPTURE
                              THEN [w EXCEPT ![h].dwm = val] ELSE w],
          [hr |-> 1, win |-> w],
          [hr |-> -2147024809, win |-> w]}
    ELSE {[hr |-> -2147024890, win |-> w]}

\* user32!SetWindowDisplayAffinity: the possible (BOOL, last error, windows) answers
SetWindowDisplayAffinity(w, h, affinity) ==
    IF h \in DOMAIN w
    THEN {[ok |-> 1, err |-> 0, win |-> [w EXCEPT ![h].affinity = affinity]],
          [ok |-> 0, err |-> 5, win |-> w]}
    ELSE {[ok |-> 0, err |-> 1400, win |-> w]}

\* _get_root_hwnd asking for the parent (GA_PARENT = 1) instead of the root
_get_root_hwnd_parent(h, w) ==
    IF ~IS_WINDOWS
    THEN [exc |-> "", value |-> h, log |-> <<>>, calls |-> <<>>]
    ELSE IF "user32" \notin libs
    THEN [exc |-> "OSError", value |-> NULL, log |-> <<>>,
          calls |-> <<CallRec("_get_root_hwnd", "WinDLL", "user32", NULL, 0, 0, "OSError")>>]
    ELSE IF "GetAncestor" \notin entries
    THEN [exc |-> "AttributeError", value |-> NULL, log |-> <<>>,
          calls |-> <<CallRec("_get_root_hwnd", "WinDLL", "user32", NULL, 0, 0, ""),
                      CallRec("_get_root_hwnd", "getattr", "GetAncestor", NULL, 0, 0, "AttributeError")>>]
    ELSE LET root == GetAncestor(w, h, 1)
             r == IF root # NULL THEN root ELSE h
         IN [exc |-> "", value |-> r,
             log |-> <<LogRec("INFO", "Resolved top-level hwnd: %s -> %s", "", r)>>,
             calls |-> <<CallRec("_get_root_hwnd", "WinDLL", "user32", NULL, 0, 0, ""),
                         CallRec("_get_root_hwnd", "getattr", "GetAncestor", NULL, 0, 0, ""),
                         CallRec("_get_root_hwnd", "GetAncestor", "", h, 1, root, "")>>]

\* ---- _get_root_hwnd ----
_get_root_hwnd(h, w) ==
    IF ~IS_WINDOWS
    THEN [exc |-> "", value |-> h, log |-> <<>>, calls |-> <<>>]
    ELSE IF "user32" \notin libs
    THEN [exc |-> "OSError", value |-> NULL, log |-> <<>>,
          calls |-> <<CallRec("_get_root_hwnd", "WinDLL", "user32", NULL, 0, 0, "OSError")>>]
    ELSE IF "GetAncestor" \notin entries
    THEN [exc |-> "AttributeError", value |-> NULL, log |-> <<>>,
          calls |-> <<CallRec("_get_root_hwnd", "WinDLL", "user32", NULL, 0, 0, ""),
                      CallRec("_get_root_hwnd", "getattr", "GetAncestor", NULL, 0, 0, "AttributeError")>>]
    ELSE LET root == GetAncestor(w, h, GA_ROOT)
             r == IF root # NULL THEN root ELSE h
         IN [exc |-> "", value |-> r,
             log |-> <<LogRec("INFO", "Resolved top-level hwnd: %s -> %s", "", r)>>,
             calls |-> <<CallRec("_get_root_hwnd", "WinDLL", "user32", NULL, 0, 0, ""),
                         CallRec("_get_root_hwnd", "getattr", "GetAncestor", NULL, 0, 0, ""),
                         CallRec("_get_root_hwnd", "GetAncestor", "", h, GA_ROOT, root, "")>>]

\* ---- results of the mechanism attempts ----
\* what one attempt leaves behind: the exception that escaped it ("" if none),
\* the (applied, label) pair it returned, what it logged and called, and the windows
Attempt(e, ok, label, lg, cs, w) ==
    [exc |-> e, ok |-> ok, label |-> label, log |-> lg, calls |-> cs, win |-> w]

\* the attribute-set call with a payload that flips the window's current flag
DwmCall_toggle(root, w) ==
    DwmSetWindowAttribute(w, root, DWMWA_EXCLUDED_FROM_CAPTURE,
                          IF root \in DOMAIN w THEN ~w[root].dwm ELSE TRUE)

\* lines 112-114: the attribute-set call with a boolean TRUE payload
DwmCall(root, w) ==
    DwmSetWindowAttribute(w, root, DWMWA_EXCLUDED_FROM_CAPTURE, TRUE)

\* ---- _exclude_via_dwm ----
_exclude_via_dwm(h, w) ==
    IF ~IS_WINDOWS
    THEN {Attempt("", TRUE, "DWM (non-Windows assumed)", <<>>, <<>>, w)}
    ELSE IF "dwmapi" \notin libs
    THEN {Attempt("", FALSE, "None",
                  <<LogRec("INFO", "dwmapi missing; skipping DWM exclusion.", "", 0)>>,
                  <<CallRec("_exclude_via_dwm", "WinDLL", "dwmapi", NULL, 0, 0, "OSError")>>, w)}
    ELSE LET load == <<CallRec("_exclude_via_dwm", "WinDLL", "dwmapi", NULL, 0, 0, "")>>
         IN IF "DwmSetWindowAttribute" \notin entries
            THEN {Attempt("", FALSE, "None",
                          <<LogRec("ERROR", "DWM exclusion exception: %s", "AttributeError", 0)>>,
                          load \o <<CallRec("_exclude_via_dwm", "getattr", "DwmSetWindowAttribute",
                                            NULL, 0, 0, "AttributeError")>>, w)}
            ELSE LET sym == load \o <<CallRec("_exclude_via_dwm", "getattr", "DwmSetWindowAttribute",
                                              NULL, 0, 0, "")>>
                     r == _get_root_hwnd(h, w)
                 IN IF r.exc # ""
                    THEN {Attempt("", FALSE, "None",
                                  r.log \o <<LogRec("ERROR", "DWM exclusion exception: %s", r.exc, 0)>>,
                                  sym \o r.calls, w)}
                    ELSE { LET cs == sym \o r.calls \o
                                     <<CallRec("_exclude_via_dwm", "DwmSetWindowAttribute", "",
                                               r.value, DWMWA_EXCLUDED_FROM_CAPTURE, a.hr,
                                               IF a.hr < 0 THEN "OSError" ELSE "")>>
                           IN IF a.hr < 0
                              THEN Attempt("", FALSE, "None",
                                           r.log \o <<LogRec("ERROR", "DWM exclusion exception: %s", "OSError", a.hr)>>,
                                           cs, a.win)
                              ELSE IF a.hr = 0
                              THEN Attempt("", TRUE, "DWM",
                                           r.log \o <<LogRec("INFO", "DWM exclusion applied successfully.", "", 0)>>,
                                           cs, a.win)
                              ELSE Attempt("", FALSE, "None",
                                           r.log \o <<LogRec("ERROR", "DwmSetWindowAttribute failed hr=0x%x", "", a.hr)>>,
                                           cs, a.win)
                           : a \in DwmCall(r.value, w) }

\* the monitor-only call with its result never tested
AffinityMonitor_unchecked(root, w, lg, cs) ==
    { Attempt("", TRUE, "Monitor",
              lg \o <<LogRec("WARNING", "DisplayAffinity MONITOR fallback applied (partial).", "", 0)>>,
              cs \o <<CallRec("_exclude_via_affinity", "SetWindowDisplayAffinity", "",
                              root, WDA_MONITOR, b.ok, "")>>,
              b.win)
      : b \in SetWindowDisplayAffinity(w, root, WDA_MONITOR) }

\* the monitor-only call whose rejection is not logged
AffinityMonitor_quiet(root, w, lg, cs) ==
    { LET cs2 == cs \o <<CallRec("_exclude_via_affinity", "SetWindowDisplayAffinity", "",
                                 root, WDA_MONITOR, b.ok, "")>>
      IN IF b.ok # 0
         THEN Attempt("", TRUE, "Monitor",
                      lg \o <<LogRec("WARNING", "DisplayAffinity MONITOR fallback applied (partial).", "", 0)>>,
                      cs2, b.win)
         ELSE Attempt("", FALSE, "None", lg, cs2, b.win)
      : b \in SetWindowDisplayAffinity(w, root, WDA_MONITOR) }

\* the monitor-only call whose partial success is logged like a full success
AffinityMonitor_info(root, w, lg, cs) ==
    { LET cs2 == cs \o <<CallRec("_exclude_via_affinity", "SetWindowDisplayAffinity", "",
                                 root, WDA_MONITOR, b.ok, "")>>
      IN IF b.ok # 0
         THEN Attempt("", TRUE, "Monitor",
                      lg \o <<LogRec("INFO", "DisplayAffinity MONITOR fallback applied (partial).", "", 0)>>,
                      cs2, b.win)
         ELSE Attempt("", FALSE, "None",
                      lg \o <<LogRec("ERROR", "DisplayAffinity MONITOR failed err=%s", "", b.err)>>,
                      cs2, b.win)
      : b \in SetWindowDisplayAffinity(w, root, WDA_MONITOR) }

\* lines 145-151: the monitor-only call, after the full-exclusion call was rejected
AffinityMonitor(root, w, lg, cs) ==
    { LET cs2 == cs \o <<CallRec("_exclude_via_affinity", "SetWindowDisplayAffinity", "",
                                 root, WDA_MONITOR, b.ok, "")>>
      IN IF b.ok # 0
         THEN Attempt("", TRUE, "Monitor",
                      lg \o <<LogRec("WARNING", "DisplayAffinity MONITOR fallback applied (partial).", "", 0)>>,
                      cs2, b.win)
         ELSE Attempt("", FALSE, "None",
                      lg \o <<LogRec("ERROR", "DisplayAffinity MONITOR failed err=%s", "", b.err)>>,
                      cs2, b.win)
      : b \in SetWindowDisplayAffinity(w, root, WDA_MONITOR) }

\* _exclude_via_affinity going on to the monitor-only call whatever the first call returned
_exclude_via_affinity_both(h, w) ==
    IF ~IS_WINDOWS
    THEN {Attempt("", TRUE, "Affinity (non-Windows assumed)", <<>>, <<>>, w)}
    ELSE IF "user32" \notin libs
    THEN {Attempt("OSError", FALSE, "None", <<>>,
                  <<CallRec("_exclude_via_affinity", "WinDLL", "user32", NULL, 0, 0, "OSError")>>, w)}
    ELSE LET load == <<CallRec("_exclude_via_affinity", "WinDLL", "user32", NULL, 0, 0, "")>>
         IN IF "SetWindowDisplayAffinity" \notin entries
            THEN {Attempt("AttributeError", FALSE, "None", <<>>,
                          load \o <<CallRec("_exclude_via_affinity", "getattr", "SetWindowDisplayAffinity",
                                            NULL, 0, 0, "AttributeError")>>, w)}
            ELSE LET sym == load \o <<CallRec("_exclude_via_affinity", "getattr", "SetWindowDisplayAffinity",
                                              NULL, 0, 0, "")>>
                     r == _get_root_hwnd(h, w)
                 IN IF r.exc # ""
                    THEN {Attempt(r.exc, FALSE, "None", r.log, sym \o r.calls, w)}
                    ELSE UNION { AffinityMonitor(r.value, a.win, r.log,
                                                 sym \o r.calls \o
                                                 <<CallRec("_exclude_via_affinity", "SetWindowDisplayAffinity", "",
                                                           r.value, WDA_EXCLUDEFROMCAPTURE, a.ok, "")>>)
                                 : a \in SetWindowDisplayAffinity(w, r.value, WDA_EXCLUDEFROMCAPTURE) }

\* ---- _exclude_via_affinity ----
_exclude_via_affinity(h, w) ==
    IF ~IS_WINDOWS
    THEN {Attempt("", TRUE, "Affinity (non-Windows assumed)", <<>>, <<>>, w)}
    ELSE IF "user32" \notin libs
    THEN {Attempt("OSError", FALSE, "None", <<>>,
                  <<CallRec("_exclude_via_affinity", "WinDLL", "user32", NULL, 0, 0, "OSError")>>, w)}
    ELSE LET load == <<CallRec("_exclude_via_affinity", "WinDLL", "user32", NULL, 0, 0, "")>>
         IN IF "SetWindowDisplayAffinity" \notin entries
            THEN {Attempt("AttributeError", FALSE, "None", <<>>,
                          load \o <<CallRec("_exclude_via_affinity", "getattr", "SetWindowDisplayAffinity",
                                            NULL, 0, 0, "AttributeError")>>, w)}
            ELSE LET sym == load \o <<CallRec("_exclude_via_affinity", "getattr", "SetWindowDisplayAffinity",
                                              NULL, 0, 0, "")>>
                     r == _get_root_hwnd(h, w)
                 IN IF r.exc # ""
                    THEN {Attempt(r.exc, FALSE, "None", r.log, sym \o r.calls, w)}
                    ELSE UNION { LET cs == sym \o r.calls \o
                                           <<CallRec("_exclude_via_affinity", "SetWindowDisplayAffinity", "",
                                                     r.value, WDA_EXCLUDEFROMCAPTURE, a.ok, "")>>
                                 IN IF a.ok # 0
                                    THEN {Attempt("", TRUE, "Affinity",
                                                  r.log \o <<LogRec("INFO", "DisplayAffinity EXCLUDEFROMCAPTURE applied.", "", 0)>>,
                                                  cs, a.win)}
                                    ELSE AffinityMonitor(r.value, a.win,
                                                         r.log \o <<LogRec("ERROR", "DisplayAffinity EXCLUDEFROMCAPTURE failed err=%s", "", a.err)>>,
                                                         cs)
                                 : a \in SetWindowDisplayAffinity(w, r.value, WDA_EXCLUDEFROMCAPTURE) }

\* the orchestrator going on to the affinity attempt whatever the DWM attempt returned
set_window_excluded_from_capture_fallthrough(h, w) ==
    IF ~IS_WINDOWS
    THEN {[exc |-> "", ret |-> PyStr("DWM"), log |-> <<>>, calls |-> <<>>, win |-> w]}
    ELSE UNION { { [exc |-> a.exc,
                    ret |-> IF a.exc = "" THEN PyStr(a.label) ELSE PyNone,
                    log |-> d.log \o a.log, calls |-> d.calls \o a.calls, win |-> a.win]
                   : a \in _exclude_via_affinity(h, d.win) }
                 : d \in _exclude_via_dwm(h, w) }

\* the orchestrator without its IS_WINDOWS test
set_window_excluded_from_capture_unguarded(h, w) ==
    UNION { IF d.ok
            THEN {[exc |-> "", ret |-> PyStr(d.label), log |-> d.log, calls |-> d.calls, win |-> d.win]}
            ELSE { [exc |-> a.exc,
                    ret |-> IF a.exc = "" THEN PyStr(a.label) ELSE PyNone,
                    log |-> d.log \o a.log, calls |-> d.calls \o a.calls, win |-> a.win]
                   : a \in _exclude_via_affinity(h, d.win) }
            : d \in _exclude_via_dwm(h, w) }

\* ---- set_window_excluded_from_capture ----
\* the possible results of one invocation on handle h with the windows as in w
set_window_excluded_from_capture(h, w) ==
    IF ~IS_WINDOWS
    THEN {[exc |-> "", ret |-> PyStr("DWM"), log |-> <<>>, calls |-> <<>>, win |-> w]}
    ELSE UNION { IF d.ok
                 THEN {[exc |-> "", ret |-> PyStr(d.label), log |-> d.log, calls |-> d.calls, win |-> d.win]}
                 ELSE { [exc |-> a.exc,
                         ret |-> IF a.exc = "" THEN PyStr(a.label) ELSE PyNone,
                         log |-> d.log \o a.log, calls |-> d.calls \o a.calls, win |-> a.win]
                        : a \in _exclude_via_affinity(h, d.win) }
                 : d \in _exclude_via_dwm(h, w) }

\* ---- send_query ----
\* str.strip() on a sequence of characters
RECURSIVE LStrip(_)
LStrip(t) == IF t # <<>> /\ Head(t) = " " THEN LStrip(Tail(t)) ELSE t

RECURSIVE RStrip(_)
RStrip(t) == IF t # <<>> /\ t[Len(t)] = " " THEN RStrip(SubSeq(t, 1, Len(t) - 1)) ELSE t

Strip(t) == RStrip(LStrip(t))

Queries == {<<>>, <<" ">>, <<" ", "h">>}

\* exception classes of api_client.py and the built-in ones they derive from
Bases(cls) ==
    IF cls = "GrokAPIError" THEN {"GrokAPIError", "ChatAPIError", "Exception"}
    ELSE IF cls = "ChatAPIError" THEN {"ChatAPIError", "Exception"}
    ELSE {cls, "Exception"}

IsInstance(cls, target) == target \in Bases(cls)

\* a message is a sequence of phrases
Contains(msg, phrase) == \E i \in 1..Len(msg) : msg[i] = phrase

Returns(text) == [kind |-> "return", cls |-> "", msg |-> <<>>, text |-> text]
Raises(cls, msg) == [kind |-> "raise", cls |-> cls, msg |-> msg, text |-> ""]
NoOutcome == [kind |-> "none", cls |-> "", msg |-> <<>>, text |-> ""]

\* response bodies: what json.loads makes of the text, as far as _parse_response looks
NoBody == [json |-> FALSE, dict |-> FALSE, error |-> "absent", choices |-> "absent", output |-> "absent"]

Bodies ==
    {NoBody, [NoBody EXCEPT !.json = TRUE]}
    \cup [json : {TRUE}, dict : {TRUE},
          error : {"absent", "object", "object_nomsg", "string"},
          choices : {"absent", "empty", "content", "text", "blank"},
          output : {"absent", "str", "empty_str", "other"}]

Http(status, body) == [kind |-> "http", status |-> status, body |-> body]
Failure(kind) == [kind |-> kind, status |-> 0, body |-> NoBody]

\* what one session.post can meet with; the body is read only by the parse branch
Responses ==
    {Failure("ClientConnectionError"), Failure("TimeoutError"), Failure("Exception")}
    \cup {Http(st, NoBody) : st \in {401, 429, 500, 503}}
    \cup {Http(st, b) : st \in {200, 404}, b \in Bodies}

\* ---- _parse_response ----
_parse_response(data) ==
    IF ~data.dict
    THEN Raises("AttributeError", <<"not a dict">>)
    ELSE IF data.error # "absent"
    THEN IF data.error = "string"
         THEN Raises("AttributeError", <<"'str' object has no attribute 'get'">>)
         ELSE Raises("ChatAPIError",
                     <<"API error: ", IF data.error = "object" THEN "message" ELSE "Unknown API error">>)
    ELSE IF data.choices \in {"absent", "empty"}
    THEN IF data.output \in {"str", "empty_str"}
         THEN Returns(IF data.output = "str" THEN "output" ELSE "")
         ELSE Raises("ChatAPIError", <<"Malformed response", ": no choices.">>)
    ELSE IF data.choices = "blank"
    THEN Raises("ChatAPIError", <<"Empty response from assistant.">>)
    ELSE Returns(data.choices)

\* lines 84, 91, 110, 117: the base of the backoff delay
BackoffBase_linear(att) == 2 * att

BackoffBase(att) == 2 ^ att

\* lines 83, 90, 109, 116: whether a retryable failure is retried
MayRetry(att) == att < 3

\* lines 122-126: what leaves the try block of send_query
Classified(o) ==
    IF o.kind = "raise" /\ ~IsInstance(o.cls, "ChatAPIError")
    THEN Raises("ChatAPIError", <<"Unexpected error: ">> \o o.msg)
    ELSE o

\* lines 75-106: the outcome of an attempt that is not retried
Answer(resp) ==
    IF resp.kind = "ClientConnectionError" THEN Raises("ChatAPIError", <<"Network error: ">>)
    ELSE IF resp.kind = "TimeoutError" THEN Raises("ChatAPIError", <<"Request timed out.">>)
    ELSE IF resp.kind # "http" THEN Classified(Raises(resp.kind, <<"exception">>))
    ELSE IF resp.status = 401
    THEN Raises("ChatAPIError", <<"Authentication failed", " (401). Check your OpenRouter API key.">>)
    ELSE IF resp.status = 429 THEN Raises("ChatAPIError", <<"Rate limited (429). Please slow down.">>)
    ELSE IF resp.status >= 500 THEN Raises("ChatAPIError", <<"Server error", ". Try again later.">>)
    ELSE IF ~resp.body.json
    THEN Raises("ChatAPIError", <<"API did not return JSON">>)
    ELSE Classified(_parse_response(resp.body))

\* lines 82, 89, 108, 115: the branches that may sleep and continue
Transient(resp) ==
    \/ resp.kind \in {"ClientConnectionError", "TimeoutError"}
    \/ resp.kind = "http" /\ (resp.status = 429 \/ resp.status >= 500)

QueryInit ==
    /\ query \in Queries
    /\ sqPc = "start"
    /\ attempt = 0
    /\ requests = 0
    /\ delay = [base |-> 0, jitter |-> 0]
    /\ sleeps = <<>>
    /\ received = <<>>
    /\ outcome = NoOutcome

\* send_query is not running
QueryIdle ==
    /\ query = <<>>
    /\ sqPc = "idle"
    /\ attempt = 0
    /\ requests = 0
    /\ delay = [base |-> 0, jitter |-> 0]
    /\ sleeps = <<>>
    /\ received = <<>>
    /\ outcome = NoOutcome

\* lines 43-44
Validate ==
    /\ sqPc = "start"
    /\ IF query = <<>> \/ Strip(query) = <<>>
       THEN /\ outcome' = Raises("ValueError", <<"Query cannot be empty">>)
            /\ sqPc' = "done"
       ELSE /\ outcome' = outcome
            /\ sqPc' = "request"
    /\ UNCHANGED <<query, attempt, requests, delay, sleeps, received>>

\* lines 71-126: one pass of the loop body, up to its return, raise or sleep
Request ==
    /\ sqPc = "request"
    /\ requests < MaxRequests
    /\ IF attempt >= 4
       THEN /\ outcome' = Raises("ChatAPIError", <<"Failed after retries.">>)
            /\ sqPc' = "done"
            /\ UNCHANGED <<requests, received, delay>>
       ELSE \E resp \in Responses :
              /\ requests' = requests + 1
              /\ received' = Append(received, resp)
              /\ IF Transient(resp) /\ MayRetry(attempt)
                 THEN /\ \E j \in {0, 5} : delay' = [base |-> BackoffBase(attempt), jitter |-> j]
                      /\ sqPc' = "sleep"
                      /\ outcome' = outcome
                 ELSE /\ outcome' = Answer(resp)
                      /\ sqPc' = "done"
                      /\ delay' = delay
    /\ UNCHANGED <<query, attempt, sleeps>>

\* await asyncio.sleep(delay); continue
Backoff_stuck ==
    /\ sqPc = "sleep"
    /\ sleeps' = Append(sleeps, delay.base)
    /\ sqPc' = "request"
    /\ UNCHANGED <<query, attempt, requests, delay, received, outcome>>

\* await asyncio.sleep(delay); continue
Backoff ==
    /\ sqPc = "sleep"
    /\ sleeps' = Append(sleeps, delay.base)
    /\ attempt' = attempt + 1
    /\ sqPc' = "request"
    /\ UNCHANGED <<query, requests, delay, received, outcome>>

\* the exclusion manager at rest
ExclIdle ==
    /\ IS_WINDOWS = FALSE
    /\ libs = {}
    /\ entries = {}
    /\ windows = <<>>
    /\ level = 20
    /\ hwnd = NULL
    /\ ret = PyNone
    /\ exc = ""
    /\ log = <<>>
    /\ emitted = <<>>
    /\ calls = <<>>
    /\ prev = [hwnd |-> NULL, ret |-> PyNone, exc |-> "", calls |-> <<>>, win |-> <<>>]
    /\ inv = 0

\* ---- keyring helpers, ChatGUI, AsyncioRunner ----
\* Optional[str]
NoneStr == [none |-> TRUE, s |-> <<>>]
Str(t) == [none |-> FALSE, s |-> t]
Truthy(k) == ~k.none /\ k.s # <<>>

\* what askstring can give: None on cancel, else the text typed
Inputs == {NoneStr, Str(<<" ">>), Str(<<" ", "k", " ">>)}

Op(name, thread) == [op |-> name, thread |-> thread]

Line(prefix, text) == [prefix |-> prefix, text |-> text]

\* winfo_id() of the root: the Tk window, a child of the toplevel wrapper
WinfoId == 2

GuiWindows == [h \in 1..2 |-> [parent |-> h - 1, dwm |-> FALSE, affinity |-> 0]]

get_api_key_raising(reads, st) ==
    IF reads = "raises"
    THEN [exc |-> "KeyringError", key |-> NoneStr, logged |-> 0]
    ELSE [exc |-> "", key |-> st, logged |-> 20]

get_api_key(reads, st) ==
    IF reads = "raises"
    THEN [exc |-> "", key |-> NoneStr, logged |-> 40]
    ELSE [exc |-> "", key |-> st, logged |-> 20]

save_api_key_silent(key, writes, st) ==
    IF writes = "raises"
    THEN [exc |-> "", store |-> st]
    ELSE [exc |-> "", store |-> Str(key)]

save_api_key(key, writes, st) ==
    IF writes = "raises"
    THEN [exc |-> "KeyringError", store |-> st]
    ELSE [exc |-> "", store |-> Str(key)]

\* how a finished send_query can end: with a text or with a ChatAPIError
QueryOutcomes ==
    {Answer(r) : r \in {Http(200, [NoBody EXCEPT !.json = TRUE, !.dict = TRUE, !.choices = "content"]),
                        Failure("TimeoutError")}}

GuiIdle ==
    /\ gPc = "idle"
    /\ keyringReads = "ok"
    /\ store = NoneStr
    /\ got = [exc |-> "", key |-> NoneStr, logged |-> 0]
    /\ apiKey = <<>>
    /\ trail = <<>>
    /\ timerPending = FALSE
    /\ exclFrom = <<>>
    /\ _hidden = FALSE
    /\ withdrawn = FALSE
    /\ toggled = [fault |-> "", was |-> FALSE]
    /\ faults = 0
    /\ status_var = "Capture: ..."
    /\ chat = <<>>
    /\ input_var = <<>>
    /\ typed = <<>>
    /\ sent = 0
    /\ inflight = {}
    /\ callbacks = <<>>
    /\ replies = <<>>
    /\ uiQueue = <<>>
    /\ ops = {}

\* the hosts a ChatGUI is constructed on
InitGui ==
    /\ QueryIdle
    /\ IS_WINDOWS \in BOOLEAN
    /\ libs \in {AllLibs, {}}
    /\ entries = {e \in AllEntries : LibOf(e) \in libs}
    /\ windows = GuiWindows
    /\ level = 20
    /\ hwnd = NULL
    /\ ret = PyNone
    /\ exc = ""
    /\ log = <<>>
    /\ emitted = <<>>
    /\ calls = <<>>
    /\ prev = [hwnd |-> NULL, ret |-> PyNone, exc |-> "", calls |-> <<>>, win |-> windows]
    /\ inv = 0
    /\ gPc = "new"
    /\ keyringReads \in {"ok", "raises"}
    /\ store \in {NoneStr, Str(<<"k">>)}
    /\ got = [exc |-> "", key |-> NoneStr, logged |-> 0]
    /\ apiKey = <<>>
    /\ trail = <<>>
    /\ timerPending = FALSE
    /\ exclFrom = <<>>
    /\ _hidden = FALSE
    /\ withdrawn = FALSE
    /\ toggled = [fault |-> "", was |-> FALSE]
    /\ faults = 0
    /\ status_var = "Capture: ..."
    /\ chat = <<>>
    /\ input_var = <<>>
    /\ typed = <<>>
    /\ sent = 0
    /\ inflight = {}
    /\ callbacks = <<>>
    /\ replies = <<>>
    /\ uiQueue = <<>>
    /\ ops = {}

\* gui.py 109-116: GrokAPIClient(key), the deferred _finish_init, the close protocol
Ready(key, done) ==
    IF key = <<>>
    THEN /\ gPc' = "crashed"
         /\ ops' = ops \cup done
         /\ UNCHANGED <<apiKey, timerPending>>
    ELSE /\ apiKey' = key
         /\ timerPending' = TRUE
         /\ gPc' = "running"
         /\ ops' = ops \cup done \cup {Op("after", "ui"), Op("protocol", "ui")}

\* ChatGUI.__init__ up to the first dialog or to its end
Construct ==
    /\ gPc = "new"
    /\ LET g == get_api_key(keyringReads, store)
           done == {Op("__init__", "ui"), Op("get_api_key", "ui")}
       IN /\ got' = g
          /\ IF g.exc # ""
             THEN /\ gPc' = "crashed"
                  /\ ops' = ops \cup done
                  /\ UNCHANGED <<apiKey, timerPending>>
             ELSE IF Truthy(g.key)
             THEN Ready(g.key.s, done)
             ELSE /\ gPc' = "prompt"
                  /\ ops' = ops \cup done
                  /\ UNCHANGED <<apiKey, timerPending>>
    /\ UNCHANGED <<keyringReads, store, trail, exclFrom, _hidden, withdrawn, toggled, faults, status_var,
                   chat, sent, input_var, typed, inflight, callbacks, replies, uiQueue>>
    /\ UNCHANGED exclVars

\* one pass of the loop of _prompt_api_key, and the rest of __init__ when it returns
Prompt(key, writes, yes) ==
    /\ gPc = "prompt"
    /\ Len(trail) < MaxPrompts
    /\ IF Truthy(key) /\ Strip(key.s) # <<>>
       THEN LET r == save_api_key(Strip(key.s), writes, store)
            IN /\ store' = r.store
               /\ IF r.exc = ""
                  THEN /\ trail' = Append(trail, [input |-> key, save |-> "ok", dialog |-> "none"])
                       /\ Ready(Strip(key.s), {Op("askstring", "ui"), Op("save_api_key", "ui")})
                  ELSE /\ trail' = Append(trail, [input |-> key, save |-> "failed", dialog |-> "showerror"])
                       /\ ops' = ops \cup {Op("askstring", "ui"), Op("save_api_key", "ui"), Op("showerror", "ui")}
                       /\ UNCHANGED <<gPc, apiKey, timerPending>>
       ELSE /\ trail' = Append(trail, [input |-> key, save |-> "none",
                                       dialog |-> IF yes THEN "askyesno: yes" ELSE "askyesno: no"])
            /\ gPc' = IF yes THEN "exited" ELSE gPc
            /\ ops' = ops \cup {Op("askstring", "ui"), Op("askyesno", "ui")}
                          \cup (IF yes THEN {Op("destroy", "ui")} ELSE {})
            /\ UNCHANGED <<store, apiKey, timerPending>>
    /\ UNCHANGED <<keyringReads, got, exclFrom, _hidden, withdrawn, toggled, faults, status_var,
                   chat, sent, input_var, typed, inflight, callbacks, replies, uiQueue>>
    /\ UNCHANGED exclVars

\* ChatGUI._finish_init, run by the 600 ms timer
FinishInit ==
    /\ gPc = "running"
    /\ timerPending
    /\ timerPending' = FALSE
    /\ \E o \in set_window_excluded_from_capture(WinfoId, windows) :
         /\ hwnd' = WinfoId
         /\ ret' = o.ret
         /\ exc' = o.exc
         /\ log' = Recorded(o.log, level)
         /\ emitted' = o.log
         /\ calls' = o.calls
         /\ windows' = o.win
         /\ IF o.exc = ""
            THEN /\ status_var' = o.ret.value
                 /\ chat' = chat
                 /\ ops' = ops \cup {Op("winfo_id", "ui"), Op("update_idletasks", "ui"),
                                     Op("set_window_excluded_from_capture", "ui"),
                                     Op("geometry", "ui"), Op("focus_set", "ui")}
            ELSE /\ status_var' = status_var
                 /\ chat' = Append(chat, Line("[System] ", <<"Warning: Capture exclusion failed (see app.log).">>))
                 /\ ops' = ops \cup {Op("winfo_id", "ui"), Op("update_idletasks", "ui"),
                                     Op("set_window_excluded_from_capture", "ui"),
                                     Op("_append_sys", "ui"), Op("focus_set", "ui")}
    /\ prev' = [hwnd |-> hwnd, ret |-> ret, exc |-> exc, calls |-> calls, win |-> windows]
    /\ inv' = inv + 1
    /\ exclFrom' = Append(exclFrom, [from |-> "_finish_init", thread |-> "ui", pc |-> gPc])
    /\ UNCHANGED <<IS_WINDOWS, libs, entries, level>>
    /\ UNCHANGED <<gPc, keyringReads, store, got, apiKey, trail, _hidden, withdrawn, toggled, faults,
                   sent, input_var, typed, inflight, callbacks, replies, uiQueue>>

\* the window calls toggle_visibility can make, and "none" for none of them raising
ToggleFaults == {"none", "withdraw", "deiconify", "lift", "attributes", "focus_set"}

ShowCalls == <<"deiconify", "lift", "attributes", "focus_set">>

\* the window calls a toggle issues, up to the one that raises
Issued(hidden, fails) ==
    IF ~hidden THEN {"withdraw"}
    ELSE {ShowCalls[i] : i \in {j \in 1..4 : \A k \in 1..(j - 1) : ShowCalls[k] # fails}}

toggle_visibility_reapply(fails) ==
    /\ gPc = "running"
    /\ fails \in (IF _hidden THEN ToggleFaults \ {"withdraw"} ELSE {"none", "withdraw"})
    /\ fails # "none" => faults < MaxFaults
    /\ faults' = IF fails = "none" THEN faults ELSE faults + 1
    /\ toggled' = [fault |-> fails, was |-> _hidden]
    /\ withdrawn' = IF fails \in {"withdraw", "deiconify"} THEN withdrawn ELSE ~_hidden
    /\ _hidden' = IF fails \in {"none", "focus_set"} THEN ~_hidden ELSE _hidden
    /\ chat' = IF fails = "none" THEN chat
               ELSE Append(chat, Line("[System] ", <<"Warning: Could not toggle visibility (see app.log).">>))
    /\ ops' = ops \cup {Op(c, "ui") : c \in Issued(_hidden, fails)}
                  \cup (IF _hidden /\ fails = "none" THEN {Op("set_window_excluded_from_capture", "ui")} ELSE {})
                  \cup (IF fails = "none" THEN {} ELSE {Op("_append_sys", "ui")})
    /\ exclFrom' = IF _hidden /\ fails = "none"
                   THEN Append(exclFrom, [from |-> "toggle_visibility", thread |-> "ui", pc |-> gPc])
                   ELSE exclFrom
    /\ UNCHANGED <<gPc, keyringReads, store, got, apiKey, trail, timerPending,
                   status_var, sent, input_var, typed, inflight, callbacks, replies, uiQueue>>
    /\ UNCHANGED exclVars

\* ChatGUI.toggle_visibility, bound to Control-Alt-i; a window call that raises
\* has no effect, and the calls after it are not made
toggle_visibility(fails) ==
    /\ gPc = "running"
    /\ fails \in (IF _hidden THEN ToggleFaults \ {"withdraw"} ELSE {"none", "withdraw"})
    /\ fails # "none" => faults < MaxFaults
    /\ faults' = IF fails = "none" THEN faults ELSE faults + 1
    /\ toggled' = [fault |-> fails, was |-> _hidden]
    /\ withdrawn' = IF fails \in {"withdraw", "deiconify"} THEN withdrawn ELSE ~_hidden
    /\ _hidden' = IF fails \in {"none", "focus_set"} THEN ~_hidden ELSE _hidden
    /\ chat' = IF fails = "none" THEN chat
               ELSE Append(chat, Line("[System] ", <<"Warning: Could not toggle visibility (see app.log).">>))
    /\ ops' = ops \cup {Op(c, "ui") : c \in Issued(_hidden, fails)}
                  \cup (IF fails = "none" THEN {} ELSE {Op("_append_sys", "ui")})
    /\ UNCHANGED <<gPc, keyringReads, store, got, apiKey, trail, timerPending, exclFrom,
                   status_var, sent, input_var, typed, inflight, callbacks, replies, uiQueue>>
    /\ UNCHANGED exclVars

handle_send_unstripped(text) ==
    /\ gPc = "running"
    /\ sent < MaxSends
    /\ sent' = sent + 1
    /\ typed' = Append(typed, text)
    /\ IF text = <<>>
       THEN /\ input_var' = text
            /\ UNCHANGED <<chat, inflight, callbacks, replies, ops>>
       ELSE /\ input_var' = <<>>
            /\ chat' = Append(chat, Line("You: ", text))
            /\ inflight' = inflight \cup {Len(callbacks) + 1}
            /\ callbacks' = Append(callbacks, <<>>)
            /\ replies' = Append(replies, 0)
            /\ ops' = ops \cup {Op("_append_user", "ui"), Op("run_coro", "ui")}
    /\ UNCHANGED <<gPc, keyringReads, store, got, apiKey, trail, timerPending, exclFrom,
                   _hidden, withdrawn, toggled, faults, status_var, uiQueue>>
    /\ UNCHANGED exclVars

\* ChatGUI.handle_send with the text the user left in the entry
handle_send(text) ==
    /\ gPc = "running"
    /\ sent < MaxSends
    /\ sent' = sent + 1
    /\ typed' = Append(typed, text)
    /\ IF Strip(text) = <<>>
       THEN /\ input_var' = text
            /\ UNCHANGED <<chat, inflight, callbacks, replies, ops>>
       ELSE /\ input_var' = <<>>
            /\ chat' = Append(chat, Line("You: ", Strip(text)))
            /\ inflight' = inflight \cup {Len(callbacks) + 1}
            /\ callbacks' = Append(callbacks, <<>>)
            /\ replies' = Append(replies, 0)
            /\ ops' = ops \cup {Op("_append_user", "ui"), Op("run_coro", "ui")}
    /\ UNCHANGED <<gPc, keyringReads, store, got, apiKey, trail, timerPending, exclFrom,
                   _hidden, withdrawn, toggled, faults, status_var, uiQueue>>
    /\ UNCHANGED exclVars

done_direct(q) ==
    /\ q \in inflight
    /\ inflight' = inflight \ {q}
    /\ \E o \in QueryOutcomes :
         LET fn == IF o.kind = "return" THEN "_append_bot" ELSE "_append_sys"
             text == IF o.kind = "return" THEN <<o.text>> ELSE <<"Error: ">> \o o.msg
         IN /\ ops' = ops \cup {Op("send_query", "worker"), Op("done", "worker"), Op(fn, "worker")}
            /\ callbacks' = [callbacks EXCEPT ![q] = IF o.kind = "return" THEN <<"ok">> ELSE <<"err">>]
            /\ chat' = IF gPc = "running"
                       THEN Append(chat, Line(IF fn = "_append_bot" THEN "ChatGPT: " ELSE "[System] ", text))
                       ELSE chat
            /\ replies' = IF gPc = "running" THEN [replies EXCEPT ![q] = @ + 1] ELSE replies
    /\ UNCHANGED <<gPc, keyringReads, store, got, apiKey, trail, timerPending, exclFrom,
                   _hidden, withdrawn, toggled, faults, status_var, sent, input_var, typed, uiQueue>>
    /\ UNCHANGED exclVars

\* the coroutine of query q ends on the loop thread and done(f) runs there:
\* ok or err registers the reply with root.after(0, ...). Once the window is
\* destroyed that call either raises or registers a callback that never runs,
\* and what ok raises is caught by done and passed to err.
done(q) ==
    /\ q \in inflight
    /\ inflight' = inflight \ {q}
    /\ \E o \in QueryOutcomes, raises \in BOOLEAN :
         LET fn == IF o.kind = "return" THEN "_append_bot" ELSE "_append_sys"
             text == IF o.kind = "return" THEN <<o.text>> ELSE <<"Error: ">> \o o.msg
         IN /\ ops' = ops \cup {Op("send_query", "worker"), Op("done", "worker"), Op("after", "worker")}
            /\ IF gPc = "running"
               THEN /\ ~raises
                    /\ uiQueue' = Append(uiQueue, [fn |-> fn, text |-> text, q |-> q])
                    /\ callbacks' = [callbacks EXCEPT ![q] = IF o.kind = "return" THEN <<"ok">> ELSE <<"err">>]
               ELSE /\ uiQueue' = uiQueue
                    /\ callbacks' = [callbacks EXCEPT ![q] =
                                        IF o.kind # "return" THEN <<"err">>
                                        ELSE IF raises THEN <<"ok", "err">> ELSE <<"ok">>]
    /\ UNCHANGED <<gPc, keyringReads, store, got, apiKey, trail, timerPending, exclFrom,
                   _hidden, withdrawn, toggled, faults, status_var, chat, sent, input_var, typed, replies>>
    /\ UNCHANGED exclVars

\* the Tk main loop runs a callback registered with root.after(0, ...)
RunAfter ==
    /\ gPc = "running"
    /\ uiQueue # <<>>
    /\ LET t == Head(uiQueue)
       IN /\ chat' = Append(chat, Line(IF t.fn = "_append_bot" THEN "ChatGPT: " ELSE "[System] ", t.text))
          /\ ops' = ops \cup {Op(t.fn, "ui")}
          /\ replies' = [replies EXCEPT ![t.q] = @ + 1]
    /\ uiQueue' = Tail(uiQueue)
    /\ UNCHANGED <<gPc, keyringReads, store, got, apiKey, trail, timerPending, exclFrom,
                   _hidden, withdrawn, toggled, faults, status_var, sent, input_var, typed, inflight, callbacks>>
    /\ UNCHANGED exclVars

\* ChatGUI._on_close: the interpreter goes, and its timers and callbacks with it
_on_close ==
    /\ gPc = "running"
    /\ gPc' = "closed"
    /\ timerPending' = FALSE
    /\ uiQueue' = <<>>
    /\ ops' = ops \cup {Op("stop", "ui"), Op("destroy", "ui")}
    /\ UNCHANGED <<keyringReads, store, got, apiKey, trail, exclFrom,
                   _hidden, withdrawn, toggled, faults, status_var, chat, sent, input_var, typed, inflight, callbacks, replies>>
    /\ UNCHANGED exclVars

NextGui ==
    /\ \/ Construct
       \/ \E key \in Inputs, writes \in {"ok", "raises"}, yes \in BOOLEAN : Prompt(key, writes, yes)
       \/ FinishInit
       \/ toggle_visibility("none")
       \/ \E text \in Queries : handle_send(text)
       \/ \E q \in inflight : done(q)
       \/ RunAfter
       \/ _on_close
    /\ UNCHANGED queryVars

SpecGui == InitGui /\ [][NextGui]_vars

\* a window constructed with the key the keyring holds, on a host that is not Windows
GuiRunning ==
    /\ IS_WINDOWS = FALSE
    /\ libs = {}
    /\ entries = {}
    /\ windows = GuiWindows
    /\ level = 20
    /\ hwnd = NULL
    /\ ret = PyNone
    /\ exc = ""
    /\ log = <<>>
    /\ emitted = <<>>
    /\ calls = <<>>
    /\ prev = [hwnd |-> NULL, ret |-> PyNone, exc |-> "", calls |-> <<>>, win |-> windows]
    /\ inv = 0
    /\ gPc = "running"
    /\ keyringReads = "ok"
    /\ store = Str(<<"k">>)
    /\ got = [exc |-> "", key |-> Str(<<"k">>), logged |-> 20]
    /\ apiKey = <<"k">>
    /\ trail = <<>>
    /\ timerPending = TRUE
    /\ exclFrom = <<>>
    /\ _hidden = FALSE
    /\ withdrawn = FALSE
    /\ toggled = [fault |-> "", was |-> FALSE]
    /\ faults = 0
    /\ status_var = "Capture: ..."
    /\ chat = <<>>
    /\ input_var = <<>>
    /\ typed = <<>>
    /\ sent = 0
    /\ inflight = {}
    /\ callbacks = <<>>
    /\ replies = <<>>
    /\ uiQueue = <<>>
    /\ ops = {Op("__init__", "ui"), Op("get_api_key", "ui"), Op("after", "ui"), Op("protocol", "ui")}

\* a window built with the stored key, whose toggles may meet a window call that raises
InitToggle == InitGui /\ keyringReads = "ok" /\ store = Str(<<"k">>)

NextToggle ==
    /\ \/ Construct
       \/ \E fails \in ToggleFaults : toggle_visibility(fails)
       \/ FinishInit
       \/ _on_close
    /\ UNCHANGED queryVars

SpecToggle == InitToggle /\ [][NextToggle]_vars

\* the two places a query enters: a direct call of send_query, and the entry of a window
InitEntry == QueryInit /\ GuiRunning

NextEntry ==
    \/ (Validate \/ Request \/ Backoff) /\ UNCHANGED <<exclVars, guiVars>>
    \/ (\E text \in Queries : handle_send(text)) /\ UNCHANGED queryVars

SpecEntry == InitEntry /\ [][NextEntry]_vars

InitQuery == ExclIdle /\ QueryInit /\ GuiIdle

NextQuery == (Validate \/ Request \/ Backoff) /\ UNCHANGED <<exclVars, guiVars>>

SpecQuery == InitQuery /\ [][NextQuery]_vars

\* the event loop runs a coroutine that can take a step
SpecQueryFair == SpecQuery /\ WF_vars(NextQuery)

Init ==
    /\ QueryIdle
    /\ GuiIdle
    /\ IS_WINDOWS \in BOOLEAN
    /\ libs \in SUBSET AllLibs
    /\ entries \in {e \in SUBSET AllEntries : \A s \in e : LibOf(s) \in libs}
    /\ \E f \in Forests :
         windows = [h \in DOMAIN f |-> [parent |-> f[h], dwm |-> FALSE, affinity |-> 0]]
    /\ level \in LogLevels
    /\ hwnd = NULL
    /\ ret = PyNone
    /\ exc = ""
    /\ log = <<>>
    /\ emitted = <<>>
    /\ calls = <<>>
    /\ prev = [hwnd |-> NULL, ret |-> PyNone, exc |-> "", calls |-> <<>>, win |-> windows]
    /\ inv = 0

\* one call of set_window_excluded_from_capture(h), run to completion
Invoke(h) ==
    /\ inv < MaxInvocations
    /\ \E o \in set_window_excluded_from_capture(h, windows) :
         /\ hwnd' = h
         /\ ret' = o.ret
         /\ exc' = o.exc
         /\ log' = Recorded(o.log, level)
         /\ emitted' = o.log
         /\ calls' = o.calls
         /\ windows' = o.win
    /\ prev' = [hwnd |-> hwnd, ret |-> ret, exc |-> exc, calls |-> calls, win |-> windows]
    /\ inv' = inv + 1
    /\ UNCHANGED <<IS_WINDOWS, libs, entries, level>>
    /\ UNCHANGED <<queryVars, guiVars>>

Next == \E h \in Handles : Invoke(h)

Spec == Init /\ [][Next]_vars

\* ==== reading the record of an invocation ====
Labels == {"DWM", "Affinity", "Monitor", "None"}

IsDwmCall(c) == c.api = "DwmSetWindowAttribute"
IsAffinityCall(c, value) == c.api = "SetWindowDisplayAffinity" /\ c.arg = value

DwmSucceeded(cs) == \E i \in 1..Len(cs) : IsDwmCall(cs[i]) /\ cs[i].result = 0
DwmNonzero(cs) == \E i \in 1..Len(cs) : IsDwmCall(cs[i]) /\ cs[i].result # 0
DwmNotLoadable(cs) ==
    \E i \in 1..Len(cs) : cs[i].api = "WinDLL" /\ cs[i].name = "dwmapi" /\ cs[i].exc # ""
FullOk(cs) ==
    \E i \in 1..Len(cs) : IsAffinityCall(cs[i], WDA_EXCLUDEFROMCAPTURE) /\ cs[i].result # 0
FullRejected(cs) ==
    \E i \in 1..Len(cs) : IsAffinityCall(cs[i], WDA_EXCLUDEFROMCAPTURE) /\ cs[i].result = 0
MonitorOk(cs) ==
    \E i \in 1..Len(cs) : IsAffinityCall(cs[i], WDA_MONITOR) /\ cs[i].result # 0
MonitorRejected(cs) ==
    \E i \in 1..Len(cs) : IsAffinityCall(cs[i], WDA_MONITOR) /\ cs[i].result = 0
AffinityIssued(cs) == \E i \in 1..Len(cs) : cs[i].api = "SetWindowDisplayAffinity"

ErrorCount(lg) == Cardinality({i \in 1..Len(lg) : lg[i].level = "ERROR"})

Returned == inv > 0 /\ exc = ""

\* ==== C1 ====
\* C1: whenever the DWM call reports success (HRESULT 0), the invocation issues
\* no SetWindowDisplayAffinity call at all and returns the label "DWM".
C1_DwmSuccessShortCircuits ==
    DwmSucceeded(calls) => ~AffinityIssued(calls) /\ exc = "" /\ ret = PyStr("DWM")

C1_Witness ==
    /\ inv > 0 /\ IS_WINDOWS /\ hwnd \in DOMAIN windows
    /\ DwmSucceeded(calls) /\ ret = PyStr("DWM")

\* ==== C2 ====
\* C2: on a capable host, when the DWM attempt failed because dwmapi did not
\* load or because the call returned a nonzero status, the label follows the
\* affinity results: "Affinity" if the full-exclusion call succeeded, "Monitor"
\* if it was rejected and the monitor-only call succeeded, "None" if both were
\* rejected.
C2_LegacyLabelFollowsResults ==
    (IS_WINDOWS /\ (DwmNotLoadable(calls) \/ DwmNonzero(calls))) =>
        /\ FullOk(calls) => ret = PyStr("Affinity")
        /\ (FullRejected(calls) /\ MonitorOk(calls)) => ret = PyStr("Monitor")
        /\ (FullRejected(calls) /\ MonitorRejected(calls)) => ret = PyStr("None")

C2_Witness ==
    /\ IS_WINDOWS /\ DwmNotLoadable(calls)
    /\ FullRejected(calls) /\ MonitorOk(calls) /\ ret = PyStr("Monitor")

C4_NonWindowsReturnsTrue == (~IS_WINDOWS /\ inv > 0) => ret = PyTrue

\* ==== C5 ====
\* C5: no exception escapes an invocation: whatever the platform does, the
\* invocation ends by returning a string.
C5_NoExceptionEscapes == inv > 0 => (exc = "" /\ ret.type = "str")

\* ==== C6 ====
C6_Case == DwmNonzero(calls) /\ FullRejected(calls) /\ MonitorRejected(calls)

\* C6 (as written): when the DWM call returns a nonzero status and both affinity
\* calls are rejected, the invocation returns "None" and logs exactly two
\* entries at error severity.
C6_TwoErrorEntries == C6_Case => (ret = PyStr("None") /\ ErrorCount(log) = 2)

\* C6 (amended): in that case the invocation returns "None" and logs exactly
\* three entries at error severity, one for the DWM status and one for each
\* rejected affinity call; the sink records all three unless its threshold is
\* above ERROR, and then none.
C6_ThreeErrorEntries ==
    C6_Case => (ret = PyStr("None") /\ ErrorCount(log) = IF level <= 40 THEN 3 ELSE 0)

C6_Witness ==
    /\ C6_Case /\ hwnd \in DOMAIN windows /\ ret = PyStr("None")
    /\ level = 20 /\ ErrorCount(log) = 3

\* ==== C7 ====
\* the first mechanism, in the order DWM, full exclusion, monitor only, whose
\* call reported success; on a host that is not capable the DWM mechanism is
\* assumed to have succeeded (the documented compatibility mode)
FirstSuccess(cs) ==
    IF ~IS_WINDOWS \/ DwmSucceeded(cs) THEN "DWM"
    ELSE IF FullOk(cs) THEN "Affinity"
    ELSE IF MonitorOk(cs) THEN "Monitor"
    ELSE "None"

\* C7: every invocation produces one outcome, a label among "DWM", "Affinity",
\* "Monitor", "None", and a label other than "None" names the first mechanism
\* that reported success in that invocation.
C7_OneOutcomeFirstSuccess ==
    inv > 0 =>
        /\ exc = ""
        /\ ret \in {PyStr(l) : l \in Labels}
        /\ ret # PyStr("None") => ret = PyStr(FirstSuccess(calls))

\* ==== C8 ====
\* C8: resolving an already resolved handle returns it again, for every handle,
\* also when GetAncestor returns NULL and the input is the fallback.
C8_ResolutionIdempotent ==
    \A h \in Handles :
        LET r == _get_root_hwnd(h, windows)
        IN r.exc = "" =>
              LET rr == _get_root_hwnd(r.value, windows)
              IN rr.exc = "" /\ rr.value = r.value

\* a child handle was resolved to its root, and then the root to itself
C8_Witness ==
    /\ inv = 2
    /\ \E i \in 1..Len(prev.calls) :
          /\ prev.calls[i].api = "GetAncestor"
          /\ prev.calls[i].result \notin {NULL, prev.calls[i].hwnd}
          /\ hwnd = prev.calls[i].result
    /\ \E j \in 1..Len(calls) :
          /\ calls[j].api = "GetAncestor"
          /\ calls[j].hwnd = hwnd /\ calls[j].result = hwnd

\* ==== C9 ====
\* C9: handle resolution never fails: no step of _get_root_hwnd raises, and when
\* GetAncestor returns NULL the mechanism attempt goes on to issue its
\* platform call on the input handle.
C9_ResolutionNeverFails ==
    \A i \in 1..Len(calls) :
        calls[i].fn = "_get_root_hwnd" =>
            /\ calls[i].exc = ""
            /\ (calls[i].api = "GetAncestor" /\ calls[i].result = NULL) =>
                  /\ i < Len(calls)
                  /\ calls[i + 1].api \in {"DwmSetWindowAttribute", "SetWindowDisplayAffinity"}
                  /\ calls[i + 1].hwnd = calls[i].hwnd

\* ==== C10 ====
\* how the platform answered the mechanism calls of an invocation
Answers(cs) ==
    LET idx == {i \in 1..Len(cs) : cs[i].api \in {"DwmSetWindowAttribute", "SetWindowDisplayAffinity"}}
    IN {<<cs[i].api, cs[i].arg, cs[i].result>> : i \in idx}

\* C10: invoking twice on the same handle, with the platform answering each
\* mechanism the same way, returns the same label (or raises the same error)
\* and leaves every window's exclusion attributes as the first call left them.
C10_RepeatIsIdempotent ==
    (inv >= 2 /\ prev.hwnd = hwnd /\ Answers(prev.calls) = Answers(calls)) =>
        /\ ret = prev.ret /\ exc = prev.exc
        /\ windows = prev.win

C10_Witness ==
    /\ inv >= 2 /\ prev.hwnd = hwnd /\ hwnd \in DOMAIN windows
    /\ DwmSucceeded(prev.calls) /\ DwmSucceeded(calls)
    /\ ret = PyStr("DWM") /\ prev.ret = ret
    /\ windows[RootOf(windows, hwnd)].dwm

\* ==== C18 ====
HasLog(lg, lvl, msg) == \E j \in 1..Len(lg) : lg[j].level = lvl /\ lg[j].msg = msg

HasLogCode(lg, lvl, msg, codes) ==
    \E j \in 1..Len(lg) : lg[j].level = lvl /\ lg[j].msg = msg /\ lg[j].code \in codes

\* the last-error codes the platform reports for a rejected affinity call c
LastErrors(c) == {b.err : b \in {x \in SetWindowDisplayAffinity(windows, c.hwnd, c.arg) : x.ok = 0}}

\* C18: every mechanism call of an invocation is logged at the severity of its
\* result: INFO for a DWM or full-exclusion success, WARNING for a monitor-only
\* success (and for nothing else), ERROR for a rejected call, a rejected
\* affinity call with the platform's last-error code; an invocation that
\* returns "None" has logged at ERROR.
C18_SeverityMatchesResult ==
    /\ \A i \in 1..Len(calls) :
          LET c == calls[i] IN
          /\ (IsDwmCall(c) /\ c.result = 0) =>
                HasLog(emitted, "INFO", "DWM exclusion applied successfully.")
          /\ (IsDwmCall(c) /\ c.result # 0) =>
                \/ HasLogCode(emitted, "ERROR", "DwmSetWindowAttribute failed hr=0x%x", {c.result})
                \/ HasLogCode(emitted, "ERROR", "DWM exclusion exception: %s", {c.result})
          /\ (IsAffinityCall(c, WDA_EXCLUDEFROMCAPTURE) /\ c.result # 0) =>
                HasLog(emitted, "INFO", "DisplayAffinity EXCLUDEFROMCAPTURE applied.")
          /\ (IsAffinityCall(c, WDA_EXCLUDEFROMCAPTURE) /\ c.result = 0) =>
                HasLogCode(emitted, "ERROR", "DisplayAffinity EXCLUDEFROMCAPTURE failed err=%s", LastErrors(c))
          /\ (IsAffinityCall(c, WDA_MONITOR) /\ c.result # 0) =>
                HasLog(emitted, "WARNING", "DisplayAffinity MONITOR fallback applied (partial).")
          /\ (IsAffinityCall(c, WDA_MONITOR) /\ c.result = 0) =>
                HasLogCode(emitted, "ERROR", "DisplayAffinity MONITOR failed err=%s", LastErrors(c))
    /\ \A j \in 1..Len(emitted) :
          /\ emitted[j].level = "WARNING" => (MonitorOk(calls) /\ ret = PyStr("Monitor"))
          /\ emitted[j].msg \in {"DWM exclusion applied successfully.",
                                 "DisplayAffinity EXCLUDEFROMCAPTURE applied."} => emitted[j].level = "INFO"
    /\ (inv > 0 /\ ret = PyStr("None")) => \E j \in 1..Len(emitted) : emitted[j].level = "ERROR"
    /\ log = Recorded(emitted, level)

\* a degraded run: DWM rejected, full exclusion rejected, monitor-only applied
C18_Witness ==
    /\ DwmNonzero(calls) /\ FullRejected(calls) /\ MonitorOk(calls)
    /\ ret = PyStr("Monitor")
    /\ ErrorCount(emitted) = 2
    /\ HasLog(emitted, "WARNING", "DisplayAffinity MONITOR fallback applied (partial).")

\* ==== C19 ====
FullIdx(cs) == {i \in 1..Len(cs) : IsAffinityCall(cs[i], WDA_EXCLUDEFROMCAPTURE)}
MonitorIdx(cs) == {i \in 1..Len(cs) : IsAffinityCall(cs[i], WDA_MONITOR)}

\* C19: within one invocation the full-exclusion call is issued at most once;
\* the monitor-only call is issued at most once, only after a full-exclusion
\* call that was rejected, and on the same handle, which is the handle
\* _get_root_hwnd resolved for the input; no other affinity value is used.
C19_AffinityOrder ==
    /\ Cardinality(FullIdx(calls)) <= 1
    /\ Cardinality(MonitorIdx(calls)) <= 1
    /\ \A i \in 1..Len(calls) :
          calls[i].api = "SetWindowDisplayAffinity" =>
             /\ i \in FullIdx(calls) \cup MonitorIdx(calls)
             /\ calls[i].fn = "_exclude_via_affinity"
             /\ calls[i].hwnd = _get_root_hwnd(hwnd, prev.win).value
    /\ \A m \in MonitorIdx(calls) :
          \E f \in FullIdx(calls) :
             f < m /\ calls[f].result = 0 /\ calls[f].hwnd = calls[m].hwnd
    /\ FullOk(calls) => MonitorIdx(calls) = {}

\* the input was a child window: both calls went to its root
C19_Witness ==
    /\ FullRejected(calls) /\ MonitorIdx(calls) # {}
    /\ hwnd \in DOMAIN windows /\ RootOf(windows, hwnd) # hwnd
    /\ \A m \in MonitorIdx(calls) : calls[m].hwnd = RootOf(windows, hwnd)


\* ---- send_query: claims ----
LastResponse == received[Len(received)]

QueryDone == sqPc = "done" /\ Strip(query) # <<>>

ClassifiedError(o) ==
    o.kind = "raise" /\ IsInstance(o.cls, "ChatAPIError") /\ o.msg # <<>> /\ o.text = ""

C13_Bounded ==
    /\ requests <= 4
    /\ Len(received) = requests
    /\ QueryDone => /\ requests \in 1..4
                    /\ outcome.kind = "return" \/ ClassifiedError(outcome)

\* C13: send_query terminates after at most four HTTP attempts: whatever the
\* requests meet with, a fifth request is never issued, the call ends, and a call
\* with a non-blank query ends by returning text or raising a ChatAPIError
\* that carries a message.
C13_TerminatesWithinFourAttempts == [](C13_Bounded) /\ <>(sqPc = "done")

C13_Witness ==
    /\ QueryDone
    /\ requests = 4
    /\ \A i \in 1..3 : Transient(received[i])
    /\ outcome.kind = "return"

\* C14: a query answered with HTTP 401 ends by raising an error that is a
\* GrokAPIError and whose message contains "Authentication failed".
C14_AuthErrorIsGrokAPIError ==
    (QueryDone /\ LastResponse.kind = "http" /\ LastResponse.status = 401)
        => /\ outcome.kind = "raise"
           /\ IsInstance(outcome.cls, "GrokAPIError")
           /\ Contains(outcome.msg, "Authentication failed")

\* a JSON object with no "error" key, no non-empty "choices" list and no string "output"
NoChoices(b) ==
    /\ b.json /\ b.dict
    /\ b.error = "absent"
    /\ b.choices \in {"absent", "empty"}
    /\ b.output \notin {"str", "empty_str"}

\* C15: a query answered with HTTP 200 and a JSON object without "error",
\* without a non-empty "choices" list and without a string "output" ends by
\* raising a GrokAPIError whose message contains "Malformed response", and no
\* text is returned.
C15_MalformedIsGrokAPIError ==
    (QueryDone /\ LastResponse.kind = "http" /\ LastResponse.status = 200
        /\ NoChoices(LastResponse.body))
        => /\ outcome.kind = "raise"
           /\ outcome.text = ""
           /\ IsInstance(outcome.cls, "GrokAPIError")
           /\ Contains(outcome.msg, "Malformed response")

\* the conditions the contract names as retryable
Retryable(r) ==
    \/ r.kind = "ClientConnectionError"
    \/ r.kind = "TimeoutError"
    \/ r.kind = "http" /\ r.status = 429
    \/ r.kind = "http" /\ r.status >= 500

\* C20: a further request follows only a 429, a status >= 500, a connection
\* error or a timeout; any other answer ends the call on that attempt; every
\* retry is preceded by one backoff sleep of base 2^attempt (1, 2, 4), and no
\* sleep follows the fourth attempt.
C20_RetryOnlyTransientWithBackoff ==
    /\ \A i \in 1..Len(received) : i < Len(received) => Retryable(received[i])
    /\ (received # <<>> /\ ~Retryable(LastResponse)) => sqPc = "done" /\ outcome.kind # "none"
    /\ (received # <<>> /\ Retryable(LastResponse) /\ Len(received) < 4) => sqPc # "done"
    /\ Len(received) = 4 => sqPc = "done"
    /\ Len(sleeps) <= 3
    /\ \A i \in 1..Len(sleeps) : sleeps[i] = 2 ^ (i - 1)
    /\ sqPc = "sleep" => delay.base = 2 ^ attempt /\ Len(sleeps) = Len(received) - 1
    /\ sqPc = "request" => Len(sleeps) = Len(received) /\ attempt = Len(received)
    /\ (sqPc = "done" /\ received # <<>>) => Len(sleeps) = Len(received) - 1

C20_Witness ==
    /\ sqPc = "done"
    /\ Len(received) = 4
    /\ sleeps = <<1, 2, 4>>
    /\ Retryable(LastResponse)
    /\ outcome.kind = "raise"


\* ---- ChatGUI: claims ----
LastPass == trail[Len(trail)]

Constructed == gPc \in {"running", "closed"}

\* C16: when the keyring read raises, get_api_key returns None without raising,
\* and the constructor does not abort but goes on to prompt for the key: any key
\* the client then holds was entered at the prompt.
C16_ReadFailureNonFatal ==
    (keyringReads = "raises" /\ gPc # "new")
        => /\ got.exc = ""
           /\ got.key = NoneStr
           /\ got.logged = 40
           /\ gPc \in {"prompt", "running", "closed", "exited"}
           /\ gPc # "prompt" => trail # <<>>
           /\ Constructed => LastPass.save = "ok" /\ apiKey = Strip(LastPass.input.s)

C16_Witness ==
    /\ keyringReads = "raises"
    /\ store = Str(<<"k">>)
    /\ gPc = "prompt"
    /\ trail = <<>>
    /\ Op("get_api_key", "ui") \in ops

\* C17: _prompt_api_key returns a key only after save_api_key succeeded for
\* exactly that non-empty stripped key, which the keyring then holds; a failed
\* write shows the error dialog and the loop prompts again; the only other way
\* out of the loop is the user confirming exit.
C17_WriteFailureSurfaced ==
    /\ \A i \in 1..Len(trail) :
         /\ trail[i].save = "failed"
              => /\ trail[i].dialog = "showerror"
                 /\ i < Len(trail) \/ gPc = "prompt"
         /\ trail[i].save = "ok"
              => /\ i = Len(trail)
                 /\ Constructed
                 /\ apiKey = Strip(trail[i].input.s)
                 /\ apiKey # <<>>
                 /\ store = Str(apiKey)
         /\ trail[i].dialog = "askyesno: yes" => i = Len(trail) /\ gPc = "exited"
         /\ i < Len(trail) => trail[i].save = "failed" \/ trail[i].dialog = "askyesno: no"
    /\ (Constructed /\ trail # <<>>) => LastPass.save = "ok"
    /\ gPc = "exited" => /\ trail # <<>>
                         /\ LastPass.dialog = "askyesno: yes"
                         /\ Op("destroy", "ui") \in ops
                         /\ apiKey = <<>>
    /\ (gPc = "prompt" /\ trail # <<>>) => LastPass.save # "ok"

C17_Witness ==
    /\ gPc = "running"
    /\ Len(trail) = 2
    /\ trail[1].save = "failed"
    /\ trail[1].dialog = "showerror"
    /\ trail[2].save = "ok"
    /\ store = Str(<<"k">>)

\* what C11 says of the invocations that do happen
OnlyFromFinishInit ==
    /\ Len(exclFrom) <= 1
    /\ inv = Len(exclFrom)
    /\ \A i \in 1..Len(exclFrom) :
         /\ exclFrom[i].from = "_finish_init"
         /\ exclFrom[i].pc = "running"
    /\ gPc \in {"new", "prompt", "exited", "crashed"} => exclFrom = <<>>

\* C11 as stated: every window, once it is gone, has had exactly one invocation
\* of set_window_excluded_from_capture, made from _finish_init after the
\* constructor returned and never repeated.
C11_ExactlyOncePerWindow ==
    /\ OnlyFromFinishInit
    /\ gPc = "closed" => Len(exclFrom) = 1

\* C11 amended: set_window_excluded_from_capture is invoked at most once per
\* window, only from _finish_init after the constructor returned, never by the
\* constructor, toggle, send or close; it has been invoked exactly once as soon as
\* the timer has fired, and not at all for a window destroyed before that.
C11_AtMostOnceFromFinishInit ==
    /\ OnlyFromFinishInit
    /\ gPc = "running" => (Len(exclFrom) = 1 <=> ~timerPending)
    /\ Len(exclFrom) = 1 <=> Op("set_window_excluded_from_capture", "ui") \in ops
    /\ Len(exclFrom) = 1 <=> Op("winfo_id", "ui") \in ops

C11_Witness ==
    /\ gPc = "closed"
    /\ Len(exclFrom) = 1
    /\ Op("withdraw", "ui") \in ops
    /\ Op("deiconify", "ui") \in ops
    /\ Op("run_coro", "ui") \in ops

\* the operations that are not calls on a window or widget
NotWindowOps == {"get_api_key", "save_api_key", "run_coro", "stop", "send_query", "done", "after"}

\* C12: in every interleaving, the capture-exclusion call and every window or
\* widget operation, those delivering a result or an error included, run on
\* the UI thread; on the worker thread run only the coroutine and the completion
\* callback that hands the result over.
C12_NoWindowCallFromWorker ==
    /\ \A o \in ops : o.op \notin NotWindowOps => o.thread = "ui"
    /\ \A o \in ops : o.thread = "worker" => o.op \in {"send_query", "done", "after"}
    /\ \A i \in 1..Len(exclFrom) : exclFrom[i].thread = "ui"
    /\ \A i \in 1..Len(chat) :
         /\ chat[i].prefix = "ChatGPT: " => Op("_append_bot", "ui") \in ops
         /\ chat[i].prefix = "[System] " => Op("_append_sys", "ui") \in ops
    /\ \A i \in 1..Len(uiQueue) : Op("after", "worker") \in ops

C12_Witness ==
    /\ Op("after", "worker") \in ops
    /\ Op("_append_bot", "ui") \in ops
    /\ Len(exclFrom) = 1
    /\ \E i \in 1..Len(chat) : chat[i].prefix = "ChatGPT: "
    /\ \E i \in 1..Len(chat) : chat[i].prefix = "[System] " /\ chat[i].text[1] = "Error: "


\* ---- query entry: claims ----
Blank(t) == Strip(t) = <<>>

RECURSIVE Accepted(_)
Accepted(ts) == IF ts = <<>> THEN 0 ELSE (IF Blank(Head(ts)) THEN 0 ELSE 1) + Accepted(Tail(ts))

RECURSIVE UserLines(_)
UserLines(c) == IF c = <<>> THEN 0 ELSE (IF Head(c).prefix = "You: " THEN 1 ELSE 0) + UserLines(Tail(c))

\* C21: an empty or whitespace-only query never reaches the network:
\* send_query ends it with ValueError before any request, and handle_send
\* leaves the chat, the entry and the runner as they were, so the user lines
\* and the requests started are exactly those of the non-blank texts.
C21_BlankQueryRejected ==
    /\ (Blank(query) /\ sqPc \notin {"idle", "start"})
         => /\ sqPc = "done"
            /\ outcome.kind = "raise"
            /\ outcome.cls = "ValueError"
            /\ requests = 0
            /\ received = <<>>
            /\ sleeps = <<>>
    /\ UserLines(chat) = Accepted(typed)
    /\ Op("run_coro", "ui") \in ops <=> Accepted(typed) > 0
    /\ Op("_append_user", "ui") \in ops <=> Accepted(typed) > 0
    /\ typed # <<>> =>
         input_var = (IF Blank(typed[Len(typed)]) THEN typed[Len(typed)] ELSE <<>>)

C21_Witness ==
    /\ query = <<" ">>
    /\ sqPc = "done"
    /\ outcome.cls = "ValueError"
    /\ requests = 0
    /\ typed = << <<" ">> >>
    /\ input_var = <<" ">>
    /\ chat = <<>>
    /\ inflight = {}


\* ---- replies: claims ----
RECURSIVE Pending(_, _)
Pending(uq, q) == IF uq = <<>> THEN 0 ELSE (IF Head(uq).q = q THEN 1 ELSE 0) + Pending(Tail(uq), q)

\* C22: for every query handle_send accepted, once its request has completed
\* exactly one of ok and err has been invoked, exactly once, and while the
\* window lives the query has exactly one reply line, appended or handed over;
\* before completion it has had no callback and no reply.
C22_OneCallbackOneReply ==
    /\ Len(callbacks) = Accepted(typed)
    /\ Len(replies) = Len(callbacks)
    /\ \A q \in 1..Len(callbacks) :
         IF q \in inflight
         THEN callbacks[q] = <<>> /\ replies[q] = 0 /\ Pending(uiQueue, q) = 0
         ELSE /\ callbacks[q] \in {<<"ok">>, <<"err">>}
              /\ replies[q] <= 1
              /\ gPc = "running" => replies[q] + Pending(uiQueue, q) = 1


\* ---- visibility: claims ----
\* C23: after any sequence of toggles the _hidden flag is true exactly when the
\* window is withdrawn; a toggle in which no window call raised has flipped the
\* flag, and a toggle whose window call raised has left the flag as it was.
C23_HiddenMatchesWithdrawn ==
    /\ _hidden <=> withdrawn
    /\ toggled.fault = "none" => _hidden = ~toggled.was
    /\ toggled.fault \notin {"", "none"} => _hidden = toggled.was

====
